---- MODULE Spec2Model ----
(***************************************************************************)
(* A model of src/servers/pull_request_agent_server.py: the four published *)
(* operations (analyze_file_changes, list_available_pr_templates,          *)
(* fetch_pr_template, suggest_template) and the helper                     *)
(* _find_best_template.                                                    *)
(*                                                                         *)
(* A Python str is a tuple of one-character strings.  Python objects that  *)
(* the code indexes, iterates or serialises are tagged with their type, so *)
(* that indexing a str with a key, or a dict with a missing key, raises as *)
(* it does in Python.  A call ends in Return(value) or in Raise(exception). *)
(***************************************************************************)
EXTENDS Integers, Sequences, FiniteSets, TLC

VARIABLES
    call,      \* the operation in progress, its arguments and what its collaborators answered
    result     \* what the operation ended with: a returned str or an uncaught exception

vars == <<call, result>>

(***************************************************************************)
(* Bounds of the model.                                                    *)
(***************************************************************************)
MaxDiffLen == 4
MaxFilesLen == 2
MaxDiffLines == 2
MaxTemplates == 2

(***************************************************************************)
(* Python str operations.                                                  *)
(***************************************************************************)
UpperLetters == <<"A","B","C","D","E","F","G","H","I","J","K","L","M","N","O","P","Q","R","S","T","U","V","W","X","Y","Z">>
LowerLetters == <<"a","b","c","d","e","f","g","h","i","j","k","l","m","n","o","p","q","r","s","t","u","v","w","x","y","z">>
UpperSet == {UpperLetters[i] : i \in 1..26}

LowerChar(c) ==
    IF c \in UpperSet
    THEN LowerLetters[CHOOSE i \in 1..26 : UpperLetters[i] = c]
    ELSE c

\* s.lower()
Lower(s) == [i \in 1..Len(s) |-> LowerChar(s[i])]

\* term in s
Contains(term, s) ==
    \E i \in 0..(Len(s) - Len(term)) :
        \A j \in 1..Len(term) : s[i + j] = term[j]

\* The characters str.strip() removes, among those the model uses.
Whitespace == {" ", "\n", "\f", "\t"}

\* s.strip()
Strip(s) ==
    LET keep == {i \in 1..Len(s) : s[i] \notin Whitespace}
    IN  IF keep = {} THEN <<>>
        ELSE SubSeq(s, CHOOSE i \in keep : \A j \in keep : i <= j,
                       CHOOSE i \in keep : \A j \in keep : i >= j)

\* The line boundaries of str.splitlines() that can occur in text read with
\* text=True (universal newlines have already turned "\r\n" and "\r" into
\* "\n"): the newline, and the other boundaries splitlines honours, of which
\* the form feed stands for all (\v, \f, \x1c, \x1d, \x1e, \x85, U+2028, U+2029).
LineBoundaries == {"\n", "\f"}

\* s.splitlines(): no empty last line after a final boundary.
RECURSIVE splitlines(_)
splitlines(s) ==
    LET cuts == {i \in 1..Len(s) : s[i] \in LineBoundaries}
    IN  IF s = <<>> THEN <<>>
        ELSE IF cuts = {} THEN <<s>>
        ELSE LET i == CHOOSE k \in cuts : \A j \in cuts : k <= j
             IN  <<SubSeq(s, 1, i - 1)>> \o splitlines(SubSeq(s, i + 1, Len(s)))

\* sep.join(parts)
RECURSIVE join(_, _)
join(sep, parts) ==
    IF parts = <<>> THEN <<>>
    ELSE IF Len(parts) = 1 THEN parts[1]
    ELSE parts[1] \o sep \o join(sep, Tail(parts))

\* seq[:n] for n >= 0
Prefix(seq, n) == SubSeq(seq, 1, IF n < Len(seq) THEN n ELSE Len(seq))

\* str(n) for an integer n >= 0
Digits == <<"0","1","2","3","4","5","6","7","8","9">>
RECURSIVE IntStr(_)
IntStr(n) ==
    IF n < 10 THEN <<Digits[n + 1]>>
    ELSE IntStr(n \div 10) \o <<Digits[(n % 10) + 1]>>

(***************************************************************************)
(* Python objects, tagged with their type.  A dict is the sequence of its  *)
(* <<key, value>> items in insertion order, which is the order json.dumps  *)
(* writes them in.                                                         *)
(***************************************************************************)
PyNone == [type |-> "NoneType"]
PyBool(b) == [type |-> "bool", val |-> b]
PyInt(n) == [type |-> "int", val |-> n]
PyStr(s) == [type |-> "str", val |-> s]
PyList(l) == [type |-> "list", val |-> l]
PyDict(items) == [type |-> "dict", val |-> items]

\* How a call ends.
Return(v) == [kind |-> "return", value |-> v]
Raise(e) == [kind |-> "raise", exc |-> e]

\* len(obj) of a str, list or dict
PyLen(obj) == Len(obj.val)

\* bool(obj)
Truthy(obj) ==
    CASE obj.type = "NoneType" -> FALSE
      [] obj.type = "bool" -> obj.val
      [] obj.type = "int" -> obj.val # 0
      [] OTHER -> Len(obj.val) > 0

\* The i-th object a for loop over obj yields: a str yields its characters,
\* each a str of length one; a list yields its elements.
ItemAt(obj, i) ==
    IF obj.type = "str" THEN PyStr(<<obj.val[i]>>) ELSE obj.val[i]

HasKey(d, key) == \E i \in 1..Len(d.val) : d.val[i][1] = key

\* obj[key] for a str key: the value of a dict, KeyError when the dict has no
\* such key, TypeError for a str or a list (their indices must be integers).
GetItem(obj, key) ==
    IF obj.type = "dict"
    THEN IF HasKey(obj, key)
         THEN Return(obj.val[CHOOSE i \in 1..Len(obj.val) : obj.val[i][1] = key][2])
         ELSE Raise("KeyError")
    ELSE Raise("TypeError")

\* d[key] = value on a dict: replaces the value in place, or appends the item.
SetItem(d, key, value) ==
    IF HasKey(d, key)
    THEN PyDict([i \in 1..Len(d.val) |->
                    IF d.val[i][1] = key THEN <<key, value>> ELSE d.val[i]])
    ELSE PyDict(Append(d.val, <<key, value>>))

(***************************************************************************)
(* json.dumps with its defaults: ", " and ": " separators, the escapes of  *)
(* the characters the model uses.                                          *)
(***************************************************************************)
JsonEscaped == {"\"", "\\", "\n", "\f", "\t"}

JsonEscapeChar(c) ==
    CASE c = "\"" -> <<"\\", "\"">>
      [] c = "\\" -> <<"\\", "\\">>
      [] c = "\n" -> <<"\\", "n">>
      [] c = "\f" -> <<"\\", "f">>
      [] c = "\t" -> <<"\\", "t">>
      [] OTHER -> <<c>>

RECURSIVE JsonEscape(_)
JsonEscape(s) ==
    IF \A i \in 1..Len(s) : s[i] \notin JsonEscaped THEN s
    ELSE JsonEscapeChar(Head(s)) \o JsonEscape(Tail(s))

RECURSIVE json_dumps(_)
json_dumps(obj) ==
    LET elems[i \in 0..Len(obj.val)] ==
            IF i = 0 THEN <<>>
            ELSE elems[i - 1] \o (IF i > 1 THEN <<","," ">> ELSE <<>>)
                 \o json_dumps(obj.val[i])
        items[i \in 0..Len(obj.val)] ==
            IF i = 0 THEN <<>>
            ELSE items[i - 1] \o (IF i > 1 THEN <<","," ">> ELSE <<>>)
                 \o <<"\"">> \o JsonEscape(obj.val[i][1]) \o <<"\"">> \o <<":"," ">>
                 \o json_dumps(obj.val[i][2])
    IN  CASE obj.type = "NoneType" -> <<"n","u","l","l">>
          [] obj.type = "bool" -> (IF obj.val THEN <<"t","r","u","e">> ELSE <<"f","a","l","s","e">>)
          [] obj.type = "int" -> IntStr(obj.val)
          [] obj.type = "str" -> <<"\"">> \o JsonEscape(obj.val) \o <<"\"">>
          [] obj.type = "list" -> <<"[">> \o elems[Len(obj.val)] \o <<"]">>
          [] obj.type = "dict" -> <<"{">> \o items[Len(obj.val)] \o <<"}">>

(***************************************************************************)
(* analyze_file_changes.  A run of git is one of: ok with its stdout,      *)
(* nonzero exit with its stderr and return code (check=True raises         *)
(* CalledProcessError), or the executable could not be started             *)
(* (FileNotFoundError, which the except clause does not catch).            *)
(***************************************************************************)
K_changed_files == <<"c","h","a","n","g","e","d","_","f","i","l","e","s">>
K_diff == <<"d","i","f","f">>
K_diff_line_count == <<"d","i","f","f","_","l","i","n","e","_","c","o","u","n","t">>
K_truncated == <<"t","r","u","n","c","a","t","e","d">>
K_error == <<"e","r","r","o","r">>

GitDiffNameOnly == <<"[","'","g","i","t","'",","," ","'","d","i","f","f","'",","," ","'","-","-","c","a","c","h","e","d","'",","," ","'","-","-","n","a","m","e","-","o","n","l","y","'","]">>
GitDiff == <<"[","'","g","i","t","'",","," ","'","d","i","f","f","'",","," ","'","-","-","c","a","c","h","e","d","'","]">>

\* str(e) of a CalledProcessError with a positive return code
CalledProcessErrorStr(cmd, returncode) ==
    <<"C","o","m","m","a","n","d"," ","'">> \o cmd \o <<"'"," ","r","e","t","u","r","n","e","d"," ","n","o","n","-","z","e","r","o"," ","e","x","i","t"," ","s","t","a","t","u","s"," ">>
    \o IntStr(returncode) \o <<".">>

\* The except clause without its assignment.
OnCalledProcessError_Swallowed(res, cmd, run) == res

\* lines 78-79: result["error"] = e.stderr.strip() or str(e)
OnCalledProcessError(res, cmd, run) ==
    SetItem(res, K_error,
            PyStr(IF Strip(run.stderr) # <<>> THEN Strip(run.stderr)
                  ELSE CalledProcessErrorStr(cmd, run.returncode)))

\* lines 56-58: [f for f in files_proc.stdout.splitlines() if f.strip()]
ChangedFiles(stdout) ==
    LET lines == splitlines(stdout)
        keep == SelectSeq(lines, LAMBDA f : Strip(f) # <<>>)
    IN  PyList([i \in 1..Len(keep) |-> PyStr(keep[i])])

\* lines 69-76
SummarizeDiff(res, stdout, max_diff_lines) ==
    LET lines == splitlines(stdout)
        counted == SetItem(res, K_diff_line_count, PyInt(Len(lines)))
    IN  IF Len(lines) > max_diff_lines
        THEN SetItem(SetItem(counted, K_diff,
                             PyStr(join(<<"\n">>, Prefix(lines, max_diff_lines)))),
                     K_truncated, PyBool(TRUE))
        ELSE SetItem(counted, K_diff, PyStr(stdout))

\* lines 39-45
DefaultSummary ==
    PyDict(<< <<K_changed_files, PyList(<<>>)>>,
              <<K_diff, PyStr(<<>>)>>,
              <<K_diff_line_count, PyInt(0)>>,
              <<K_truncated, PyBool(FALSE)>>,
              <<K_error, PyNone>> >>)

\* The dict the operation serialises, or the exception that escapes it.
\* diff_run is read only when the second git call is made.
AnalyzeOutcome(include_diff, max_diff_lines, files_run, diff_run) ==
    CASE files_run.status = "oserror" -> Raise("FileNotFoundError")
      [] files_run.status = "nonzero" ->
            Return(OnCalledProcessError(DefaultSummary, GitDiffNameOnly, files_run))
      [] files_run.status = "ok" ->
            LET listed == SetItem(DefaultSummary, K_changed_files,
                                  ChangedFiles(files_run.stdout))
            IN  IF ~include_diff THEN Return(listed)
                ELSE CASE diff_run.status = "oserror" -> Raise("FileNotFoundError")
                       [] diff_run.status = "nonzero" ->
                             Return(OnCalledProcessError(listed, GitDiff, diff_run))
                       [] diff_run.status = "ok" ->
                             Return(SummarizeDiff(listed, diff_run.stdout, max_diff_lines))

\* The returned str is json.dumps(result) (line 81); `data` keeps the dict it
\* serialises.
Dumped(outcome) ==
    IF outcome.kind = "raise" THEN outcome
    ELSE [kind |-> "return", value |-> PyStr(json_dumps(outcome.value)),
          data |-> outcome.value]

analyze_file_changes(include_diff, max_diff_lines, files_run, diff_run) ==
    Dumped(AnalyzeOutcome(include_diff, max_diff_lines, files_run, diff_run))

(***************************************************************************)
(* The template directory, as the os and pathlib calls see it: missing,    *)
(* not a directory, a directory os.listdir cannot read, or a directory     *)
(* with its entries in the order os.listdir yields them.  An entry is a    *)
(* regular file that reads (with its content) or whose open/read raises,   *)
(* or something that is not a regular file.                                *)
(***************************************************************************)
\* line 14; where the package is installed is not the program's choice.
PR_TEMPLATE_DIR == <<"/","s","r","v","/","p","r","_","t","e","m","p","l","a","t","e","s">>

K_templates == <<"t","e","m","p","l","a","t","e","s">>
K_filename == <<"f","i","l","e","n","a","m","e">>
K_content == <<"c","o","n","t","e","n","t">>
K_selected_template == <<"s","e","l","e","c","t","e","d","_","t","e","m","p","l","a","t","e">>
K_reason == <<"r","e","a","s","o","n">>
K_available_templates == <<"a","v","a","i","l","a","b","l","e","_","t","e","m","p","l","a","t","e","s">>

\* lines 101-106: what the loop appends for a regular file
TemplateEntry(e) ==
    IF e.read.ok
    THEN PyDict(<< <<K_filename, PyStr(e.name)>>, <<K_content, PyStr(e.read.content)>> >>)
    ELSE PyDict(<< <<K_filename, PyStr(e.name)>>, <<K_error, PyStr(e.read.error)>> >>)

\* lines 97-106: the loop over os.listdir
ListedTemplates(entries) ==
    LET acc[i \in 0..Len(entries)] ==
            IF i = 0 THEN <<>>
            ELSE IF ~entries[i].isfile THEN acc[i - 1]
            ELSE Append(acc[i - 1], TemplateEntry(entries[i]))
    IN  PyList(acc[Len(entries)])

\* The listing without the inner try: a read that fails reaches the outer
\* except clause.
ListingOutcome_NoInnerTry(dir) ==
    CASE dir.state \in {"missing", "notdir"} ->
            Return(PyDict(<< <<K_error, PyStr(<<"D","i","r","e","c","t","o","r","y"," ","'">> \o PR_TEMPLATE_DIR
                                              \o <<"'"," ","d","o","e","s"," ","n","o","t"," ","e","x","i","s","t",".">>)>> >>))
      [] dir.state = "unlistable" ->
            Return(PyDict(<< <<K_error, PyStr(dir.error)>> >>))
      [] dir.state = "ok" ->
            LET failed == {i \in 1..Len(dir.entries) :
                             dir.entries[i].isfile /\ ~dir.entries[i].read.ok}
            IN  IF failed = {}
                THEN Return(PyDict(<< <<K_templates, ListedTemplates(dir.entries)>> >>))
                ELSE Return(PyDict(<< <<K_error,
                        PyStr(dir.entries[CHOOSE i \in failed : \A j \in failed : i <= j].read.error)>> >>))

\* lines 90-110 before json.dumps: the dict that is serialised
ListingOutcome(dir) ==
    CASE dir.state \in {"missing", "notdir"} ->
            Return(PyDict(<< <<K_error, PyStr(<<"D","i","r","e","c","t","o","r","y"," ","'">> \o PR_TEMPLATE_DIR
                                              \o <<"'"," ","d","o","e","s"," ","n","o","t"," ","e","x","i","s","t",".">>)>> >>))
      [] dir.state = "unlistable" ->
            Return(PyDict(<< <<K_error, PyStr(dir.error)>> >>))
      [] dir.state = "ok" ->
            Return(PyDict(<< <<K_templates, ListedTemplates(dir.entries)>> >>))

list_available_pr_templates(dir) == Dumped(ListingOutcome(dir))

(***************************************************************************)
(* fetch_pr_template                                                       *)
(***************************************************************************)
\* PR_TEMPLATE_DIR / f"{template_name}.md" resolved in the directory
Resolve(dir, template_name) ==
    LET fname == template_name \o <<".","m","d">>
        hits == IF dir.state = "ok"
                THEN {i \in 1..Len(dir.entries) : dir.entries[i].name = fname}
                ELSE {}
    IN  IF hits = {} THEN [exists |-> FALSE]
        ELSE [exists |-> TRUE, entry |-> dir.entries[CHOOSE i \in hits : TRUE]]

fetch_pr_template(template_name, dir) ==
    LET path == Resolve(dir, template_name)
    IN  IF ~path.exists \/ ~path.entry.isfile
        THEN Dumped(Return(PyDict(<< <<K_error, PyStr(<<"T","e","m","p","l","a","t","e"," ","'">> \o template_name
                                                      \o <<"'"," ","n","o","t"," ","f","o","u","n","d",".">>)>> >>)))
        ELSE IF path.entry.read.ok
        THEN Return(PyStr(path.entry.read.content))
        ELSE Dumped(Return(PyDict(<< <<K_error, PyStr(path.entry.read.error)>> >>)))

(***************************************************************************)
(* _find_best_template                                                     *)
(***************************************************************************)
\* lines 142-150
canonical_map ==
    << <<<<"b","u","g">>, <<<<"b","u","g">>, <<"f","i","x">>, <<"b","u","g","f","i","x">>>> >>,
       <<<<"f","e","a","t","u","r","e">>, <<<<"f","e","a","t","u","r","e">>, <<"e","n","h","a","n","c","e","m","e","n","t">>, <<"n","e","w">>>> >>,
       <<<<"d","o","c","s">>, <<<<"d","o","c">>, <<"d","o","c","s">>, <<"d","o","c","u","m","e","n","t","a","t","i","o","n">>>> >>,
       <<<<"r","e","f","a","c","t","o","r">>, <<<<"r","e","f","a","c","t","o","r">>, <<"c","l","e","a","n","u","p">>>> >>,
       <<<<"t","e","s","t">>, <<<<"t","e","s","t">>, <<"t","e","s","t","s">>>> >>,
       <<<<"p","e","r","f","o","r","m","a","n","c","e">>, <<<<"p","e","r","f","o","r","m","a","n","c","e">>, <<"s","p","e","e","d">>, <<"o","p","t","i","m","i","z","a","t","i","o","n">>, <<"o","p","t","i","m","i","z","e">>>> >>,
       <<<<"s","e","c","u","r","i","t","y">>, <<<<"s","e","c","u","r","i","t","y">>, <<"s","e","c","u","r","e">>, <<"v","u","l","n","e","r","a","b","i","l","i","t","y">>, <<"a","u","t","h">>, <<"e","n","c","r","y","p","t","i","o","n">>>> >> >>

\* line 152: canonical_map.get(ct, [ct])
SearchTerms(ct) ==
    LET hits == {i \in 1..Len(canonical_map) : canonical_map[i][1] = ct}
    IN  IF hits = {} THEN <<ct>> ELSE canonical_map[CHOOSE i \in hits : TRUE][2]

\* any(term in text for term in search_terms)
AnyTermIn(search_terms, text) ==
    \E k \in 1..Len(search_terms) : Contains(search_terms[k], text)

\* line 162: the slice of the content that is searched
ContentWindow == 512

\* The name match without .lower() on the filename.
NameMatches_CaseSensitive(search_terms, filename) == AnyTermIn(search_terms, filename)

\* lines 156-157, given t["filename"]
NameMatches(search_terms, filename) == AnyTermIn(search_terms, Lower(filename))

\* lines 162-163, given t["content"]
ContentMatches(search_terms, content) ==
    AnyTermIn(search_terms, Lower(Prefix(content, ContentWindow)))

NotFound == [kind |-> "none"]

\* lines 155-158: the first loop, from its i-th iteration on
RECURSIVE NameScan(_, _, _)
NameScan(templates, search_terms, i) ==
    IF i > PyLen(templates) THEN NotFound
    ELSE LET t == ItemAt(templates, i)
             fname == GetItem(t, K_filename)
         IN  IF fname.kind = "raise" THEN fname
             ELSE IF NameMatches(search_terms, fname.value.val) THEN Return(t)
             ELSE NameScan(templates, search_terms, i + 1)

\* lines 161-164: the second loop, from its i-th iteration on
RECURSIVE ContentScan(_, _, _)
ContentScan(templates, search_terms, i) ==
    IF i > PyLen(templates) THEN NotFound
    ELSE LET t == ItemAt(templates, i)
             content == GetItem(t, K_content)
         IN  IF content.kind = "raise" THEN content
             ELSE IF ContentMatches(search_terms, content.value.val) THEN Return(t)
             ELSE ContentScan(templates, search_terms, i + 1)

\* lines 166-169
Fallback(templates) ==
    IF Truthy(templates) THEN Return(ItemAt(templates, 1)) ELSE Return(PyDict(<<>>))

_find_best_template(change_type, templates) ==
    LET ct == Lower(change_type)
        search_terms == SearchTerms(ct)
        by_name == NameScan(templates, search_terms, 1)
    IN  IF by_name.kind # "none" THEN by_name
        ELSE LET by_content == ContentScan(templates, search_terms, 1)
             IN  IF by_content.kind # "none" THEN by_content
                 ELSE Fallback(templates)

(***************************************************************************)
(* suggest_template                                                        *)
(***************************************************************************)
\* [t["filename"] for t in templates]
Filenames(templates) ==
    LET acc[i \in 0..PyLen(templates)] ==
            IF i = 0 THEN Return(<<>>)
            ELSE IF acc[i - 1].kind = "raise" THEN acc[i - 1]
            ELSE LET fname == GetItem(ItemAt(templates, i), K_filename)
                 IN  IF fname.kind = "raise" THEN fname
                     ELSE Return(Append(acc[i - 1].value, fname.value))
        all == acc[PyLen(templates)]
    IN  IF all.kind = "raise" THEN all ELSE Return(PyList(all.value))

\* lines 186-201, given what line 183 bound to `templates`
SuggestFrom(change_type, templates) ==
    LET best == _find_best_template(change_type, templates)
        names == Filenames(templates)
    IN  IF best.kind = "raise" THEN best
        ELSE IF names.kind = "raise" THEN names
        ELSE IF Truthy(best.value)
        THEN Return(PyDict(<< <<K_selected_template, best.value>>,
                              <<K_reason, PyStr(<<"T","e","m","p","l","a","t","e"," ","m","a","t","c","h","e","d"," ","f","o","r"," ","c","h","a","n","g","e","_","t","y","p","e"," ","'">>
                                                \o change_type \o <<"'",".">>)>>,
                              <<K_available_templates, names.value>> >>))
        ELSE Return(PyDict(<< <<K_error, PyStr(<<"N","o"," ","s","u","i","t","a","b","l","e"," ","t","e","m","p","l","a","t","e"," ","f","o","u","n","d",".">>)>>,
                              <<K_available_templates, names.value>> >>))

\* line 183 binds `templates` to what list_available_pr_templates returns, the
\* str json.dumps made; line 185 reads TEMPLATES_DIR, a name the module never
\* defines.
suggest_template(changes_summary, change_type, dir) ==
    LET listed == list_available_pr_templates(dir)
    IN  IF listed.kind = "raise" THEN listed
        ELSE IF ~Truthy(listed.value) THEN Raise("NameError")
        ELSE Dumped(SuggestFrom(change_type, listed.value))

(***************************************************************************)
(* Inputs of the model.                                                    *)
(***************************************************************************)
RECURSIVE StringsUpTo(_, _)
StringsUpTo(alphabet, n) ==
    IF n = 0 THEN {<<>>}
    ELSE LET shorter == StringsUpTo(alphabet, n - 1)
         IN  shorter \cup {Append(s, c) : s \in shorter, c \in alphabet}

NotRun == [status |-> "notrun"]
GitFailures ==
    {[status |-> "oserror"]}
    \cup {[status |-> "nonzero", stderr |-> e, returncode |-> 128] :
            e \in {<<>>, <<" ","\n">>, <<"f","a","t","a","l",":"," ","n","o","t"," ","a"," ","g","i","t"," ","r","e","p","o","s","i","t","o","r","y","\n">>}}
FilesRuns ==
    GitFailures \cup {[status |-> "ok", stdout |-> s] :
                        s \in StringsUpTo({"a", " ", "\n"}, MaxFilesLen)}
DiffRuns ==
    GitFailures \cup {[status |-> "ok", stdout |-> s] :
                        s \in StringsUpTo({"a", "\n", "\f"}, MaxDiffLen)}

Pad(n) == [i \in 1..n |-> "x"]

FileNames == {<<"b","u","g","f","i","x",".","m","d">>, <<"f","e","a","t","u","r","e",".","m","d">>, <<"H","o","t","F","i","x",".","m","d">>, <<"n","o","t","e","s",".","m","d">>}
OtherNames == {<<"o","l","d",".","m","d">>}
Contents ==
    {<<>>, <<"A"," ","B","u","g">>,
     Pad(ContentWindow - 3) \o <<"b","u","g">>,
     Pad(ContentWindow - 2) \o <<"b","u","g">>}
ReadErrors == {<<"[","E","r","r","n","o"," ","1","3","]"," ","P","e","r","m","i","s","s","i","o","n"," ","d","e","n","i","e","d">>}
DirEntries ==
    {[name |-> n, isfile |-> TRUE, read |-> [ok |-> TRUE, content |-> c]] :
        n \in FileNames, c \in Contents}
    \cup {[name |-> n, isfile |-> TRUE, read |-> [ok |-> FALSE, error |-> m]] :
            n \in FileNames, m \in ReadErrors}
    \cup {[name |-> n, isfile |-> FALSE] : n \in OtherNames}

\* The listings of at most n entries; a directory holds a name once.
RECURSIVE Listings(_)
Listings(n) ==
    IF n = 0 THEN {<<>>}
    ELSE LET shorter == Listings(n - 1)
         IN  shorter \cup
             {Append(p[1], p[2]) :
                 p \in {q \in shorter \X DirEntries :
                          \A i \in 1..Len(q[1]) : q[1][i].name # q[2].name}}

ListedDirs == {[state |-> "ok", entries |-> l] : l \in Listings(MaxTemplates)}
Dirs ==
    ListedDirs
    \cup {[state |-> "missing"], [state |-> "notdir"]}
    \cup {[state |-> "unlistable", error |-> m] : m \in ReadErrors}
FetchDirs == Dirs \ {d \in Dirs : d.state = "unlistable"}

ChangeTypes ==
    {<<"b","u","g">>, <<"B","U","G">>, <<"f","e","a","t","u","r","e">>, <<"d","o","c","s">>, <<"c","h","o","r","e">>, <<"n","o","t","e","s">>, <<>>}
Summaries == {<<"f","i","x","e","s"," ","a"," ","c","r","a","s","h">>}
TemplateNames == {<<"b","u","g","f","i","x">>, <<"n","o","t","e","s">>, <<"o","l","d">>, <<"r","e","l","e","a","s","e">>}

Idle == [op |-> "idle"]
NoResult == [kind |-> "none"]

Init ==
    /\ call = Idle
    /\ result = NoResult

AnalyzeFileChanges ==
    /\ call.op = "idle"
    /\ \E include_diff \in BOOLEAN, max_diff_lines \in 1..MaxDiffLines,
          files_run \in FilesRuns :
        \E diff_run \in (IF include_diff /\ files_run.status = "ok"
                         THEN DiffRuns ELSE {NotRun}) :
            /\ call' = [op |-> "analyze_file_changes",
                        include_diff |-> include_diff,
                        max_diff_lines |-> max_diff_lines,
                        files_run |-> files_run, diff_run |-> diff_run]
            /\ result' = analyze_file_changes(include_diff, max_diff_lines,
                                              files_run, diff_run)

ListAvailablePrTemplates ==
    /\ call.op = "idle"
    /\ \E dir \in Dirs :
        /\ call' = [op |-> "list_available_pr_templates", dir |-> dir]
        /\ result' = list_available_pr_templates(dir)

FetchPrTemplate ==
    /\ call.op = "idle"
    /\ \E template_name \in TemplateNames, dir \in FetchDirs :
        /\ call' = [op |-> "fetch_pr_template", template_name |-> template_name,
                    dir |-> dir]
        /\ result' = fetch_pr_template(template_name, dir)

SuggestTemplate ==
    /\ call.op = "idle"
    /\ \E changes_summary \in Summaries, change_type \in ChangeTypes, dir \in Dirs :
        /\ call' = [op |-> "suggest_template", changes_summary |-> changes_summary,
                    change_type |-> change_type, dir |-> dir]
        /\ result' = suggest_template(changes_summary, change_type, dir)

\* The helper applied to a catalog: the list of template dicts that
\* list_available_pr_templates builds (lines 90-106) for a directory.
FindBestTemplate ==
    /\ call.op = "idle"
    /\ \E change_type \in ChangeTypes, dir \in ListedDirs :
        /\ call' = [op |-> "_find_best_template", change_type |-> change_type,
                    templates |-> ListedTemplates(dir.entries)]
        /\ result' = _find_best_template(change_type, ListedTemplates(dir.entries))

\* The caller has the result; the server waits for the next request.
Respond ==
    /\ call.op # "idle"
    /\ call' = Idle
    /\ result' = NoResult

Next ==
    \/ SuggestTemplate
    \/ FindBestTemplate
    \/ ListAvailablePrTemplates
    \/ FetchPrTemplate
    \/ AnalyzeFileChanges
    \/ Respond

Spec == Init /\ [][Next]_vars

(***************************************************************************)
(* What the properties read from a state.                                  *)
(***************************************************************************)
Field(d, key) == GetItem(d, key).value

PublicOps ==
    {"analyze_file_changes", "list_available_pr_templates", "fetch_pr_template",
     "suggest_template"}

\* A CalledProcessError was raised in the analyze_file_changes call.
VcsErrorRaised ==
    /\ call.op = "analyze_file_changes"
    /\ \/ call.files_run.status = "nonzero"
       \/ call.diff_run.status = "nonzero"

\* analyze_file_changes ran both git calls and both succeeded.
DiffSummarized ==
    /\ call.op = "analyze_file_changes"
    /\ call.include_diff
    /\ call.files_run.status = "ok"
    /\ call.diff_run.status = "ok"

\* The lines of a text with the newline as the only separator: each piece a
\* newline ends, and what follows the last newline when that is not empty.
RECURSIVE NewlineLines(_)
NewlineLines(d) ==
    LET cuts == {i \in 1..Len(d) : d[i] = "\n"}
    IN  IF d = <<>> THEN <<>>
        ELSE IF cuts = {} THEN <<d>>
        ELSE LET i == CHOOSE k \in cuts : \A j \in cuts : k <= j
             IN  <<SubSeq(d, 1, i - 1)>> \o NewlineLines(SubSeq(d, i + 1, Len(d)))

\* The summary is the one the lines `lines` of the diff call for.
SummaryOf(lines) ==
    LET d == call.diff_run.stdout
        n == Len(lines)
        cap == call.max_diff_lines
        r == result.data
    IN  /\ Field(r, K_diff_line_count).val = n
        /\ Field(r, K_truncated).val = (n > cap)
        /\ (n > cap) => Field(r, K_diff).val = join(<<"\n">>, Prefix(lines, cap))
        /\ (n <= cap) => Field(r, K_diff).val = d

\* C1: for every diff and every positive maxLines, diff_line_count is the
\* number of lines of the diff, truncated holds iff that number exceeds
\* maxLines, a truncated diff is the first maxLines lines joined by newline
\* and an untruncated one is the input verbatim.
C1_SummaryOfDiffLines ==
    DiffSummarized =>
        /\ result.kind = "return"
        /\ SummaryOf(NewlineLines(call.diff_run.stdout))

\* The statement of C1 on the diffs whose only line boundary is the newline.
SummaryOfNewlineOnlyDiff ==
    (/\ DiffSummarized
     /\ \A i \in 1..Len(call.diff_run.stdout) :
            call.diff_run.stdout[i] \in LineBoundaries
                => call.diff_run.stdout[i] = "\n")
    =>  /\ result.kind = "return"
        /\ SummaryOf(NewlineLines(call.diff_run.stdout))

\* C2 as stated: whenever a git call fails with a nonzero status, the
\* summary has a non-null error and changed_files and diff are [] and "".
C2_DefaultsOnVcsError ==
    VcsErrorRaised =>
        /\ result.kind = "return"
        /\ Field(result.data, K_error).type # "NoneType"
        /\ Field(result.data, K_changed_files).val = <<>>
        /\ Field(result.data, K_diff).val = <<>>

\* C2 as amended: whenever a git call fails with a nonzero status, the
\* summary has a non-null, non-empty error, and diff, diff_line_count and
\* truncated are at their defaults ("", 0, false); changed_files is [] when the
\* staged-paths call failed, and is the staged paths already listed when
\* only the staged-diff call failed.
C2_PartialOnVcsError ==
    VcsErrorRaised =>
        /\ result.kind = "return"
        /\ Field(result.data, K_error).type = "str"
        /\ Field(result.data, K_error).val # <<>>
        /\ Field(result.data, K_diff).val = <<>>
        /\ Field(result.data, K_diff_line_count).val = 0
        /\ Field(result.data, K_truncated).val = FALSE
        /\ Field(result.data, K_changed_files) =
              (IF call.files_run.status = "nonzero" THEN PyList(<<>>)
               ELSE ChangedFiles(call.files_run.stdout))

\* The staged-diff call failed after the staged-paths call had listed a path.
C2_Witness ==
    /\ VcsErrorRaised
    /\ call.files_run.status = "ok"
    /\ call.diff_run.status = "nonzero"
    /\ result.kind = "return"
    /\ Field(result.data, K_changed_files).val # <<>>
    /\ Field(result.data, K_error).type = "str"

\* C3: every public operation ends by returning a result, whatever its
\* input and whatever its collaborators answered; none ends in an uncaught
\* exception.
C3_EveryOperationReturns ==
    (call.op \in PublicOps) => result.kind = "return"

(***************************************************************************)
(* The catalog of a call and the matches the statements about recommend    *)
(* speak of.                                                               *)
(***************************************************************************)
\* The templates of the directory a suggest_template call sees; none when
\* the directory cannot be enumerated.
CatalogOfDir(dir) ==
    IF dir.state = "ok" THEN ListedTemplates(dir.entries).val ELSE <<>>

Catalog ==
    IF call.op = "_find_best_template" THEN call.templates.val
    ELSE CatalogOfDir(call.dir)

\* The search terms: the synonyms of the lower-cased label when it is a key
\* of the taxonomy, the lower-cased label alone otherwise.
TermsOf(change_type) ==
    LET label == Lower(change_type)
        keyed == {i \in 1..Len(canonical_map) : canonical_map[i][1] = label}
    IN  IF keyed = {} THEN {label}
        ELSE UNION {{canonical_map[i][2][k] : k \in 1..Len(canonical_map[i][2])} :
                        i \in keyed}

NameOf(t) == Field(t, K_filename).val

NameHits(catalog, change_type) ==
    {i \in 1..Len(catalog) :
        \E term \in TermsOf(change_type) : Contains(term, Lower(NameOf(catalog[i])))}

ContentHits(catalog, change_type) ==
    {i \in 1..Len(catalog) :
        /\ HasKey(catalog[i], K_content)
        /\ \E term \in TermsOf(change_type) :
              Contains(term, Lower(Prefix(Field(catalog[i], K_content).val, 512)))}

First(hits) == CHOOSE i \in hits : \A j \in hits : i <= j

\* C4: when some template's lower-cased name contains a search term, the
\* first such template in catalog order is selected, also when an earlier
\* template matches by its content only.
C4_FirstNameMatchSelected ==
    (/\ call.op = "_find_best_template"
     /\ NameHits(Catalog, call.change_type) # {})
    =>  /\ result.kind = "return"
        /\ result.value = Catalog[First(NameHits(Catalog, call.change_type))]

\* A template that matches by content only comes before the template whose
\* name matches, and the latter is the one selected.
C4_Witness ==
    /\ call.op = "_find_best_template"
    /\ NameHits(Catalog, call.change_type) # {}
    /\ First(NameHits(Catalog, call.change_type)) > 1
    /\ 1 \in ContentHits(Catalog, call.change_type)
    /\ result.kind = "return"
    /\ result.value = Catalog[First(NameHits(Catalog, call.change_type))]

\* C5: when no template name contains a search term, the first template in
\* catalog order whose first 512 characters of content (lower-cased) contain
\* a search term is selected.
C5_FirstContentMatchSelected ==
    (/\ call.op = "_find_best_template"
     /\ NameHits(Catalog, call.change_type) = {}
     /\ ContentHits(Catalog, call.change_type) # {})
    =>  /\ result.kind = "return"
        /\ result.value = Catalog[First(ContentHits(Catalog, call.change_type))]

\* The statement of C5 on the catalogs in which every template before the
\* first content match has a content.
FirstContentMatchAmongReadable ==
    (/\ call.op = "_find_best_template"
     /\ NameHits(Catalog, call.change_type) = {}
     /\ ContentHits(Catalog, call.change_type) # {}
     /\ \A i \in 1..First(ContentHits(Catalog, call.change_type)) :
            HasKey(Catalog[i], K_content))
    =>  /\ result.kind = "return"
        /\ result.value = Catalog[First(ContentHits(Catalog, call.change_type))]

\* The reason suggest_template gives for a template that matched.
MatchedReason(change_type) ==
    <<"T","e","m","p","l","a","t","e"," ","m","a","t","c","h","e","d"," ","f","o","r"," ","c","h","a","n","g","e","_","t","y","p","e"," ","'">> \o change_type \o <<"'",".">>

\* C6: for a non-empty catalog with no name match and no content match, the
\* recommendation selects the first catalog entry and its reason says that
\* nothing matched directly.
C6_FallbackSaysNoMatch ==
    (/\ call.op = "suggest_template"
     /\ Catalog # <<>>
     /\ NameHits(Catalog, call.change_type) = {}
     /\ ContentHits(Catalog, call.change_type) = {})
    =>  /\ result.kind = "return"
        /\ HasKey(result.data, K_selected_template)
        /\ Field(result.data, K_selected_template) = Catalog[1]
        /\ HasKey(result.data, K_reason)
        /\ Field(result.data, K_reason).val # MatchedReason(call.change_type)

\* C7: for an empty catalog, also when the template source could not be
\* enumerated, the recommendation has no selected template, the error "No
\* suitable template found." and an empty available_templates.
C7_EmptyCatalogReported ==
    (/\ call.op = "suggest_template"
     /\ Catalog = <<>>)
    =>  /\ result.kind = "return"
        /\ ~HasKey(result.data, K_selected_template)
        /\ HasKey(result.data, K_error)
        /\ Field(result.data, K_error).val = <<"N","o"," ","s","u","i","t","a","b","l","e"," ","t","e","m","p","l","a","t","e"," ","f","o","u","n","d",".">>
        /\ HasKey(result.data, K_available_templates)
        /\ Field(result.data, K_available_templates).val = <<>>

\* C8: every recommendation carries available_templates, the names of all
\* templates of the catalog in catalog order.
C8_AvailableListsCatalog ==
    (call.op = "suggest_template")
    =>  /\ result.kind = "return"
        /\ HasKey(result.data, K_available_templates)
        /\ Field(result.data, K_available_templates).val =
              [i \in 1..Len(Catalog) |-> PyStr(NameOf(Catalog[i]))]

\* The regular files of a listing, in enumeration order.
RegularFiles(entries) == SelectSeq(entries, LAMBDA e : e.isfile)

\* C9: when the template directory can be enumerated, the listing has one
\* entry per regular file, in enumeration order: a file that reads appears
\* with its content, a file whose read fails appears with an error instead
\* of a content, and the result has no top-level error.
C9_ListingIsPerItem ==
    (/\ call.op = "list_available_pr_templates"
     /\ call.dir.state = "ok")
    =>  /\ result.kind = "return"
        /\ result.value.val = json_dumps(result.data)
        /\ ~HasKey(result.data, K_error)
        /\ HasKey(result.data, K_templates)
        /\ LET files == RegularFiles(call.dir.entries)
               listed == Field(result.data, K_templates).val
           IN  /\ Len(listed) = Len(files)
               /\ \A i \in 1..Len(files) :
                    /\ NameOf(listed[i]) = files[i].name
                    /\ files[i].read.ok =>
                          /\ HasKey(listed[i], K_content)
                          /\ Field(listed[i], K_content).val = files[i].read.content
                          /\ ~HasKey(listed[i], K_error)
                    /\ ~files[i].read.ok =>
                          /\ HasKey(listed[i], K_error)
                          /\ ~HasKey(listed[i], K_content)

\* A file whose read fails is listed with its error, and the file after it
\* with its content.
C9_Witness ==
    /\ call.op = "list_available_pr_templates"
    /\ call.dir.state = "ok"
    /\ result.kind = "return"
    /\ HasKey(result.data, K_templates)
    /\ LET listed == Field(result.data, K_templates).val
       IN  /\ Len(listed) >= 2
           /\ HasKey(listed[1], K_error)
           /\ HasKey(listed[2], K_content)
           /\ Len(call.dir.entries) = 2
           /\ ~call.dir.entries[1].read.ok

\* C10: for the empty changeType the recommendation is a validation error
\* and selects no template, whatever the catalog; the empty search term is
\* not taken to match every template.
C10_EmptyLabelRejected ==
    /\ (call.op = "suggest_template" /\ call.change_type = <<>>)
       =>  /\ result.kind = "return"
           /\ HasKey(result.data, K_error)
           /\ ~HasKey(result.data, K_selected_template)
    /\ (call.op = "_find_best_template" /\ call.change_type = <<>>)
       =>  /\ result.kind = "return"
           /\ ~Truthy(result.value)

====
